---- MODULE Spec2Model ----
(***************************************************************************)
(* Model of ai/ml_server.py: the water-potability server.                  *)
(*                                                                         *)
(* Numbers.  A Python value handed to the evaluator is a record            *)
(*   [k |-> "num", v |-> n]   a finite float, n counted in tenths          *)
(*                            (0.8 is 8, 500 is 5000, 500.1 is 5001)       *)
(*   [k |-> "nan", v |-> 0]   float('nan'): every comparison is False      *)
(*   [k |-> "str", v |-> 0]   a non-numeric object: comparing it with a    *)
(*                            number raises TypeError                      *)
(* Scores are counted in points (100.0 is 100), the confidence in          *)
(* hundredths (0.85 is 85).                                                *)
(***************************************************************************)
EXTENDS Integers, Sequences, FiniteSets, TLC

VARIABLES
    module_name,       \* __name__: "__main__" (run as a script) or "ml_server" (imported)
    classifier_file,   \* potability_classifier.pkl on disk: "missing", "ok", "corrupt"
    score_file,        \* potability_score_regressor.pkl on disk, likewise
    classifier_model,  \* global, line 21
    score_regressor,   \* global, line 22
    models_loaded,     \* global, line 23
    pc,                \* position in the module's top level / __main__ block
    load_result,       \* what load_models() returned to the __main__ block
    server_started,    \* app.run() was reached
    exit_code,         \* <<>> while running, <<c>> after sys.exit(c)
    response,          \* the last HTTP response sent: <<>> or <<[route, code]>>; the body
                       \* of a 200 from /predict or /test is the logged call's result
    log                \* the most recent calls of get_potability_recommendation

vars == <<module_name, classifier_file, score_file, classifier_model, score_regressor,
          models_loaded, pc, load_result, server_started, exit_code, response, log>>

-----------------------------------------------------------------------------
(* Python values and comparisons *)

Num(n) == [k |-> "num", v |-> n]

NaN == [k |-> "nan", v |-> 0]

NotANumber == [k |-> "str", v |-> 0]

\* n whole units in tenths: Whole(500) is the float 500.0
Whole(n) == 10 * n

\* x <= n and x > n for a number n: False on NaN
Le(x, n) == x.k = "num" /\ x.v <= n

Gt(x, n) == x.k = "num" /\ x.v > n

\* the comparison raises TypeError
Raises(x) == x.k = "str"

Min(a, b) == IF a <= b THEN a ELSE b

Max(a, b) == IF a >= b THEN a ELSE b

RECURSIVE Join(_, _)
\* sep.join(parts)
Join(sep, parts) ==
    IF parts = <<>> THEN ""
    ELSE IF Len(parts) = 1 THEN parts[1]
    ELSE parts[1] \o sep \o Join(sep, Tail(parts))

-----------------------------------------------------------------------------
(* get_potability_recommendation, lines 76-195 *)

tds_limit == Whole(500)

turbidity_limit == Whole(1)

\* mutant: the limit itself counted as a violation
tds_compliant_strict(tds_value) == tds_value.k = "num" /\ tds_value.v < tds_limit

tds_compliant(tds_value) == Le(tds_value, tds_limit)

turbidity_compliant(turbidity_value) == Le(turbidity_value, turbidity_limit)

potability_status(tds_value, turbidity_value) ==
    IF tds_compliant(tds_value) /\ turbidity_compliant(turbidity_value)
    THEN "Potable"
    ELSE "Not Potable"

\* mutant: the mildest violation deducts 25
tds_deduction_mild(tds_value) ==
    IF Gt(tds_value, Whole(1200)) THEN 50
    ELSE IF Gt(tds_value, Whole(900)) THEN 45
    ELSE IF Gt(tds_value, Whole(600)) THEN 40
    ELSE IF Gt(tds_value, Whole(500)) THEN 25
    ELSE 0

\* mutant: `if` for `elif`, every band passed deducts
tds_deduction_cumulative(tds_value) ==
    (IF Gt(tds_value, Whole(1200)) THEN 50 ELSE 0)
    + (IF Gt(tds_value, Whole(900)) THEN 45 ELSE 0)
    + (IF Gt(tds_value, Whole(600)) THEN 40 ELSE 0)
    + (IF Gt(tds_value, Whole(500)) THEN 35 ELSE 0)

\* mutant: `>=` for `>` at 600
tds_deduction_inclusive(tds_value) ==
    IF Gt(tds_value, Whole(1200)) THEN 50
    ELSE IF Gt(tds_value, Whole(900)) THEN 45
    ELSE IF tds_value.k = "num" /\ tds_value.v >= Whole(600) THEN 40
    ELSE IF Gt(tds_value, Whole(500)) THEN 35
    ELSE 0

\* lines 106-113: what the TDS chain subtracts
tds_deduction(tds_value) ==
    IF Gt(tds_value, Whole(1200)) THEN 50
    ELSE IF Gt(tds_value, Whole(900)) THEN 45
    ELSE IF Gt(tds_value, Whole(600)) THEN 40
    ELSE IF Gt(tds_value, Whole(500)) THEN 35
    ELSE 0

\* mutant: `>=` for `>` at the limit
turbidity_deduction_inclusive(turbidity_value) ==
    IF Gt(turbidity_value, Whole(50)) THEN 50
    ELSE IF Gt(turbidity_value, Whole(10)) THEN 45
    ELSE IF Gt(turbidity_value, Whole(5)) THEN 40
    ELSE IF turbidity_value.k = "num" /\ turbidity_value.v >= Whole(1) THEN 35
    ELSE 0

\* lines 116-123: what the turbidity chain subtracts
turbidity_deduction(turbidity_value) ==
    IF Gt(turbidity_value, Whole(50)) THEN 50
    ELSE IF Gt(turbidity_value, Whole(10)) THEN 45
    ELSE IF Gt(turbidity_value, Whole(5)) THEN 40
    ELSE IF Gt(turbidity_value, Whole(1)) THEN 35
    ELSE 0

potability_score(tds_value, turbidity_value) ==
    Max(0, Min(100, (100 - tds_deduction(tds_value)) - turbidity_deduction(turbidity_value)))

TdsIssue ==
    "Water is NOT potable. TDS exceeds WHO limit. Consider treatment like filtration or chemical disinfection."

TurbidityIssue == "High Turbidity: May contain pathogens, use sediment filters."

issues(tds_value, turbidity_value) ==
    (IF Gt(tds_value, Whole(500)) THEN <<TdsIssue>> ELSE <<>>)
    \o (IF Gt(turbidity_value, Whole(5)) THEN <<TurbidityIssue>>
        ELSE IF Gt(turbidity_value, Whole(1)) THEN <<TurbidityIssue>>
        ELSE <<>>)

actions(tds_value, turbidity_value) ==
    (IF Gt(tds_value, Whole(500)) THEN <<"TDS treatment required">> ELSE <<>>)
    \o (IF Gt(turbidity_value, Whole(5)) THEN <<"Sediment filtration required">>
        ELSE IF Gt(turbidity_value, Whole(1)) THEN <<"Sediment filtration required">>
        ELSE <<>>)

\* assigned 'High' in each branch that appends an issue, 'Low' when none did
risk_level(tds_value, turbidity_value) ==
    IF issues(tds_value, turbidity_value) = <<>> THEN "Low" ELSE "High"

recommendation(tds_value, turbidity_value) ==
    IF issues(tds_value, turbidity_value) = <<>>
    THEN "Water is POTABLE. No immediate action needed."
    ELSE Join(" ", issues(tds_value, turbidity_value))

action_required(tds_value, turbidity_value) ==
    IF issues(tds_value, turbidity_value) = <<>>
    THEN "None"
    ELSE Join(", ", actions(tds_value, turbidity_value))

\* str(e) of the TypeError raised at line 91 (tds_limit is an int) and at
\* line 92 (turbidity_limit is a float)
TdsTypeError == "'<=' not supported between instances of 'str' and 'int'"

TurbidityTypeError == "'<=' not supported between instances of 'str' and 'float'"

EvaluationFailure(cause) ==
    [status |-> "error", message |-> "AI prediction failed: " \o cause]

ModelsNotLoaded ==
    [status |-> "error", message |-> "AI models not loaded. Please train models first."]

\* mutant: the confidence drops when ph leaves 6.5 .. 8.0
Evaluate_ph_confidence(tds_value, turbidity_value, temperature, ph_level) ==
    IF Raises(tds_value) THEN EvaluationFailure(TdsTypeError)
    ELSE IF Raises(turbidity_value) THEN EvaluationFailure(TurbidityTypeError)
    ELSE
        [status |-> "success",
         potability_status |-> potability_status(tds_value, turbidity_value),
         potability_score |-> potability_score(tds_value, turbidity_value),
         confidence |-> IF Le(ph_level, 80) /\ ~Le(ph_level, 64) THEN 85 ELSE 60,
         risk_level |-> risk_level(tds_value, turbidity_value),
         recommendation |-> recommendation(tds_value, turbidity_value),
         action_required |-> action_required(tds_value, turbidity_value),
         who_compliance |->
            [tds_compliant |-> tds_compliant(tds_value),
             turbidity_compliant |-> turbidity_compliant(turbidity_value),
             overall_compliant |->
                tds_compliant(tds_value) /\ turbidity_compliant(turbidity_value)],
         parameters |->
            [tds_value |-> tds_value,
             turbidity_value |-> turbidity_value,
             temperature |-> temperature,
             ph_level |-> ph_level],
         who_guidelines |->
            [tds_limit |-> tds_limit, turbidity_limit |-> turbidity_limit],
         ai_info |->
            [model_version |-> "1.0", training_date |-> "2024-10-21", accuracy |-> "99.5%"]]

\* the try body, lines 86-189
Evaluate(tds_value, turbidity_value, temperature, ph_level) ==
    IF Raises(tds_value) THEN EvaluationFailure(TdsTypeError)
    ELSE IF Raises(turbidity_value) THEN EvaluationFailure(TurbidityTypeError)
    ELSE
        [status |-> "success",
         potability_status |-> potability_status(tds_value, turbidity_value),
         potability_score |-> potability_score(tds_value, turbidity_value),
         confidence |-> 85,
         risk_level |-> risk_level(tds_value, turbidity_value),
         recommendation |-> recommendation(tds_value, turbidity_value),
         action_required |-> action_required(tds_value, turbidity_value),
         who_compliance |->
            [tds_compliant |-> tds_compliant(tds_value),
             turbidity_compliant |-> turbidity_compliant(turbidity_value),
             overall_compliant |->
                tds_compliant(tds_value) /\ turbidity_compliant(turbidity_value)],
         parameters |->
            [tds_value |-> tds_value,
             turbidity_value |-> turbidity_value,
             temperature |-> temperature,
             ph_level |-> ph_level],
         who_guidelines |->
            [tds_limit |-> tds_limit, turbidity_limit |-> turbidity_limit],
         ai_info |->
            [model_version |-> "1.0", training_date |-> "2024-10-21", accuracy |-> "99.5%"]]

\* mutant: the gate tests the classifier's handle
get_potability_recommendation_by_handle(tds_value, turbidity_value, temperature, ph_level) ==
    IF classifier_model = "None"
    THEN ModelsNotLoaded
    ELSE Evaluate(tds_value, turbidity_value, temperature, ph_level)

\* mutant: no gate
get_potability_recommendation_ungated(tds_value, turbidity_value, temperature, ph_level) ==
    Evaluate(tds_value, turbidity_value, temperature, ph_level)

\* reads the global models_loaded, line 79
get_potability_recommendation(tds_value, turbidity_value, temperature, ph_level) ==
    IF ~models_loaded
    THEN ModelsNotLoaded
    ELSE Evaluate(tds_value, turbidity_value, temperature, ph_level)

-----------------------------------------------------------------------------
(* load_models, lines 25-54 *)

\* mutant: the `return False` of line 46 lost, a missing regressor falls through
load_models_fallthrough ==
    IF classifier_file = "missing"
    THEN [classifier_model |-> classifier_model, score_regressor |-> score_regressor,
          models_loaded |-> models_loaded, returns |-> FALSE]
    ELSE IF classifier_file = "corrupt"
    THEN [classifier_model |-> classifier_model, score_regressor |-> score_regressor,
          models_loaded |-> models_loaded, returns |-> FALSE]
    ELSE IF score_file = "missing"
    THEN [classifier_model |-> "loaded", score_regressor |-> score_regressor,
          models_loaded |-> TRUE, returns |-> TRUE]
    ELSE IF score_file = "corrupt"
    THEN [classifier_model |-> "loaded", score_regressor |-> score_regressor,
          models_loaded |-> models_loaded, returns |-> FALSE]
    ELSE [classifier_model |-> "loaded", score_regressor |-> "loaded",
          models_loaded |-> TRUE, returns |-> TRUE]

\* joblib.load raises on a file that exists and cannot be unpickled
\* the globals after the call and the value returned
load_models ==
    IF classifier_file = "missing"
    THEN [classifier_model |-> classifier_model, score_regressor |-> score_regressor,
          models_loaded |-> models_loaded, returns |-> FALSE]
    ELSE IF classifier_file = "corrupt"
    THEN [classifier_model |-> classifier_model, score_regressor |-> score_regressor,
          models_loaded |-> models_loaded, returns |-> FALSE]
    ELSE IF score_file = "missing"
    THEN [classifier_model |-> "loaded", score_regressor |-> score_regressor,
          models_loaded |-> models_loaded, returns |-> FALSE]
    ELSE IF score_file = "corrupt"
    THEN [classifier_model |-> "loaded", score_regressor |-> score_regressor,
          models_loaded |-> models_loaded, returns |-> FALSE]
    ELSE [classifier_model |-> "loaded", score_regressor |-> "loaded",
          models_loaded |-> TRUE, returns |-> TRUE]

-----------------------------------------------------------------------------
(* the __main__ block, lines 260-282 *)

\* line 265: load_models() is called and its value tested
MainLoadModels ==
    /\ module_name = "__main__"
    /\ pc = "toplevel"
    /\ classifier_model' = load_models.classifier_model
    /\ score_regressor' = load_models.score_regressor
    /\ models_loaded' = load_models.models_loaded
    /\ load_result' = <<load_models.returns>>
    /\ pc' = "loaded"
    /\ UNCHANGED <<module_name, classifier_file, score_file, server_started,
                   exit_code, response, log>>

\* lines 266-278: the branch taken when load_models() returned True
MainRunServer ==
    /\ module_name = "__main__"
    /\ pc = "loaded"
    /\ load_result = <<TRUE>>
    /\ server_started' = TRUE
    /\ pc' = "serving"
    /\ UNCHANGED <<module_name, classifier_file, score_file, classifier_model,
                   score_regressor, models_loaded, load_result, exit_code, response, log>>

\* lines 279-282: the branch taken when it returned False
MainExit ==
    /\ module_name = "__main__"
    /\ pc = "loaded"
    /\ load_result = <<FALSE>>
    /\ exit_code' = <<1>>
    /\ pc' = "exited"
    /\ UNCHANGED <<module_name, classifier_file, score_file, classifier_model,
                   score_regressor, models_loaded, load_result, server_started,
                   response, log>>

-----------------------------------------------------------------------------
(* the module imported by another program (a WSGI host, a script, a test):   *)
(* the __main__ block is skipped, line 260, and the importer calls the       *)
(* module's functions and serves `app` as it sees fit                        *)

ImportedLoadModels ==
    /\ module_name # "__main__"
    /\ classifier_model' = load_models.classifier_model
    /\ score_regressor' = load_models.score_regressor
    /\ models_loaded' = load_models.models_loaded
    /\ UNCHANGED <<module_name, classifier_file, score_file, pc, load_result,
                   server_started, exit_code, response, log>>

\* requests reach the routes of `app`
Serving ==
    \/ module_name = "__main__" /\ pc = "serving"
    \/ module_name # "__main__"

\* the log keeps the last `window` calls of the evaluator
Remember(call, window) ==
    IF Len(log) < window
    THEN Append(log, call)
    ELSE SubSeq(Append(log, call), Len(log) + 2 - window, Len(log) + 1)

Call(tds_value, turbidity_value, temperature, ph_level) ==
    [tds_value |-> tds_value, turbidity_value |-> turbidity_value,
     temperature |-> temperature, ph_level |-> ph_level,
     loaded |-> models_loaded,
     result |-> get_potability_recommendation(tds_value, turbidity_value,
                                              temperature, ph_level)]

\* the importer calls get_potability_recommendation itself
DirectCall(tds_value, turbidity_value, temperature, ph_level, window) ==
    /\ module_name # "__main__"
    /\ log' = Remember(Call(tds_value, turbidity_value, temperature, ph_level), window)
    /\ UNCHANGED <<module_name, classifier_file, score_file, classifier_model,
                   score_regressor, models_loaded, pc, load_result, server_started,
                   exit_code, response>>

-----------------------------------------------------------------------------
(* the routes, lines 197-258 *)

\* a request parameter as it arrives: not given, the text of a finite
\* number, the text "nan", or text float() rejects
Absent == [k |-> "absent", v |-> 0]

Text(n) == [k |-> "text", v |-> n]

NanText == [k |-> "nantext", v |-> 0]

BadText == [k |-> "bad", v |-> 0]

\* float(args.get(key, default)): the float, for a parameter float() accepts
float_get(raw, default) ==
    IF raw.k = "absent" THEN Num(default)
    ELSE IF raw.k = "text" THEN Num(raw.v)
    ELSE NaN

\* float() raises ValueError
float_raises(raw) == raw.k = "bad"

Reply(route, code) == <<[route |-> route, code |-> code]>>

\* the body reports models_loaded and lists the endpoints
home ==
    /\ Serving
    /\ response' = Reply("/", 200)
    /\ UNCHANGED <<module_name, classifier_file, score_file, classifier_model,
                   score_regressor, models_loaded, pc, load_result, server_started,
                   exit_code, log>>

\* lines 211-233; GET reads tds, turbidity, temperature, ph from the query
\* string, POST reads tds_value, turbidity_value, temperature, ph_level from
\* the JSON body, with the same defaults
predict(method, tds, turbidity, temperature, ph, window) ==
    /\ Serving
    /\ method \in {"GET", "POST"}
    /\ IF float_raises(tds) \/ float_raises(turbidity)
          \/ float_raises(temperature) \/ float_raises(ph)
       THEN \* the exception leaves the view: Flask answers 500
            /\ response' = Reply("/predict", 500)
            /\ log' = log
       ELSE LET call == Call(float_get(tds, 3500), float_get(turbidity, 8),
                             float_get(temperature, 250), float_get(ph, 70))
            IN /\ response' = Reply("/predict", 200)
               /\ log' = Remember(call, window)
    /\ UNCHANGED <<module_name, classifier_file, score_file, classifier_model,
                   score_regressor, models_loaded, pc, load_result, server_started,
                   exit_code>>

\* the body reports models_loaded and the time
status ==
    /\ Serving
    /\ response' = Reply("/status", 200)
    /\ UNCHANGED <<module_name, classifier_file, score_file, classifier_model,
                   score_regressor, models_loaded, pc, load_result, server_started,
                   exit_code, log>>

\* the body reports models_loaded and the time
health ==
    /\ Serving
    /\ response' = Reply("/health", 200)
    /\ UNCHANGED <<module_name, classifier_file, score_file, classifier_model,
                   score_regressor, models_loaded, pc, load_result, server_started,
                   exit_code, log>>

\* get_potability_recommendation(350, 0.8) with the default temperature and ph
test(window) ==
    /\ Serving
    /\ LET call == Call(Num(3500), Num(8), Num(250), Num(70))
       IN /\ response' = Reply("/test", 200)
          /\ log' = Remember(call, window)
    /\ UNCHANGED <<module_name, classifier_file, score_file, classifier_model,
                   score_regressor, models_loaded, pc, load_result, server_started,
                   exit_code>>

-----------------------------------------------------------------------------
(* the specifications *)

Files == {"missing", "ok", "corrupt"}

\* the module's top level has run: lines 18-23
Init ==
    /\ module_name \in {"__main__", "ml_server"}
    /\ classifier_file \in Files
    /\ score_file \in Files
    /\ classifier_model = "None"
    /\ score_regressor = "None"
    /\ models_loaded = FALSE
    /\ pc = "toplevel"
    /\ load_result = <<>>
    /\ server_started = FALSE
    /\ exit_code = <<>>
    /\ response = <<>>
    /\ log = <<>>

\* sensor readings in tenths, on both sides of every threshold
TdsReadings == {-10, 0, 5000, 5001, 6000, 6001, 9000, 9001, 12000, 12001}

TurbidityReadings == {-5, 0, 10, 11, 50, 51, 100, 101, 500, 501}

RawTds == {Text(n) : n \in TdsReadings} \cup {Absent, NanText, BadText}

RawTurbidity == {Text(n) : n \in TurbidityReadings} \cup {Absent, NanText, BadText}

RawTemperature == {Absent}

RawPh == {Absent}

\* what an importer may pass: numbers, NaN, and objects that are no numbers
ArgTds == {Num(6000), NaN, NotANumber}

ArgTurbidity == {Num(8), NaN, NotANumber}

ArgTemperature == {Num(250), NotANumber}

ArgPh == {Num(70)}

Next ==
    \/ MainLoadModels
    \/ MainRunServer
    \/ MainExit
    \/ ImportedLoadModels
    \/ \E t \in ArgTds, u \in ArgTurbidity, c \in ArgTemperature, p \in ArgPh :
          DirectCall(t, u, c, p, 1)
    \/ home
    \/ \E m \in {"GET", "POST"}, t \in RawTds, u \in RawTurbidity,
          c \in RawTemperature, p \in RawPh :
          predict(m, t, u, c, p, 1)
    \/ status
    \/ health
    \/ test(1)

Spec == Init /\ [][Next]_vars

-----------------------------------------------------------------------------
(* the same program with the last LogWindow calls kept, to compare calls *)

LogWindow == 2

PairTds == {Absent, Text(6000)}

PairTemperature == {Absent, Text(300)}

PairPh == {Absent, Text(85)}

NextPair ==
    \/ MainLoadModels
    \/ MainRunServer
    \/ MainExit
    \/ ImportedLoadModels
    \/ \E c \in {Num(250), Num(300)} :
          DirectCall(Num(3500), Num(8), c, Num(70), LogWindow)
    \/ home
    \/ \E m \in {"GET", "POST"}, t \in PairTds, c \in PairTemperature, p \in PairPh :
          predict(m, t, Absent, c, p, LogWindow)
    \/ status
    \/ health
    \/ test(LogWindow)

SpecPair == Init /\ [][NextPair]_vars

-----------------------------------------------------------------------------
(* the properties *)

\* x is a float (NaN included)
IsFloat(x) == x.k \in {"num", "nan"}

\* x <= n and x > n as the properties mean them: of a number
AtMost(x, n) == x.k = "num" /\ x.v <= n

Above(x, n) == x.k = "num" /\ x.v > n

Succeeded(c) == c.result.status = "success"

Has(r, field) == field \in DOMAIN r

\* C1: every successful result is 'Potable' exactly when tds <= 500 and
\* turbidity <= 1.0, and exactly when who_compliance.overall_compliant, which
\* is tds_compliant AND turbidity_compliant.
C1_PotableIffCompliant ==
    \A i \in DOMAIN log :
        Succeeded(log[i]) =>
            LET c == log[i]
                r == log[i].result
            IN /\ r.potability_status \in {"Potable", "Not Potable"}
               /\ (r.potability_status = "Potable")
                    <=> (AtMost(c.tds_value, 5000) /\ AtMost(c.turbidity_value, 10))
               /\ (r.potability_status = "Potable") <=> r.who_compliance.overall_compliant
               /\ r.who_compliance.overall_compliant
                    <=> (r.who_compliance.tds_compliant
                         /\ r.who_compliance.turbidity_compliant)

\* a successful call exactly at both limits, found Potable
C1_Witness ==
    \E i \in DOMAIN log :
        /\ Succeeded(log[i])
        /\ log[i].tds_value = Num(5000)
        /\ log[i].turbidity_value = Num(10)
        /\ log[i].result.potability_status = "Potable"

\* C2 as written: every call with tds > 500 or turbidity > 1.0 returns
\* 'Not Potable' and a score of at most 65.
C2_Original ==
    \A i \in DOMAIN log :
        (Above(log[i].tds_value, 5000) \/ Above(log[i].turbidity_value, 10)) =>
            /\ Has(log[i].result, "potability_status")
            /\ log[i].result.potability_status = "Not Potable"
            /\ log[i].result.potability_score <= 65

\* C2, amended: a call with tds > 500 or turbidity > 1.0 made while
\* models_loaded is True, the other parameter being any float, succeeds, and
\* every successful result for such an input is 'Not Potable' with a score
\* of at most 65.
C2_Amended ==
    \A i \in DOMAIN log :
        (Above(log[i].tds_value, 5000) \/ Above(log[i].turbidity_value, 10)) =>
            /\ (log[i].loaded /\ IsFloat(log[i].tds_value)
                    /\ IsFloat(log[i].turbidity_value)) => Succeeded(log[i])
            /\ Succeeded(log[i]) =>
                    /\ log[i].result.potability_status = "Not Potable"
                    /\ log[i].result.potability_score <= 65

\* the smallest violation of the TDS limit alone, evaluated
C2_Witness ==
    \E i \in DOMAIN log :
        /\ Succeeded(log[i])
        /\ log[i].tds_value = Num(5001)
        /\ log[i].turbidity_value = Num(10)
        /\ log[i].result.potability_score = 65

ResultWhenPotable(r) ==
    /\ Has(r, "potability_status")
    /\ r.potability_status = "Potable"
    /\ r.risk_level = "Low"
    /\ r.action_required = "None"
    /\ r.potability_score = 100
    /\ r.recommendation = "Water is POTABLE. No immediate action needed."

\* C3 as written: every call with tds <= 500 and turbidity <= 1.0 has the
\* result Potable, Low, 'None', 100 and the no-action recommendation.
C3_Original ==
    \A i \in DOMAIN log :
        (AtMost(log[i].tds_value, 5000) /\ AtMost(log[i].turbidity_value, 10)) =>
            ResultWhenPotable(log[i].result)

\* C3, amended: every call with tds <= 500 and turbidity <= 1.0 (zero and
\* negative values included) made while models_loaded is True has the result
\* Potable, Low, 'None', 100 and the no-action recommendation.
C3_Amended ==
    \A i \in DOMAIN log :
        (log[i].loaded /\ AtMost(log[i].tds_value, 5000)
            /\ AtMost(log[i].turbidity_value, 10)) =>
            /\ Succeeded(log[i])
            /\ ResultWhenPotable(log[i].result)

\* negative readings, evaluated
C3_Witness ==
    \E i \in DOMAIN log :
        /\ log[i].loaded
        /\ log[i].tds_value = Num(-10)
        /\ log[i].turbidity_value = Num(-5)
        /\ log[i].result.potability_status = "Potable"

\* the deductions as the score rule states them, band by band
StatedTdsDeduction(x) ==
    IF Above(x, 12000) THEN 50
    ELSE IF Above(x, 9000) /\ AtMost(x, 12000) THEN 45
    ELSE IF Above(x, 6000) /\ AtMost(x, 9000) THEN 40
    ELSE IF Above(x, 5000) /\ AtMost(x, 6000) THEN 35
    ELSE 0

StatedTurbidityDeduction(x) ==
    IF Above(x, 500) THEN 50
    ELSE IF Above(x, 100) /\ AtMost(x, 500) THEN 45
    ELSE IF Above(x, 50) /\ AtMost(x, 100) THEN 40
    ELSE IF Above(x, 10) /\ AtMost(x, 50) THEN 35
    ELSE 0

Clamp(x, lo, hi) == IF x < lo THEN lo ELSE IF x > hi THEN hi ELSE x

\* C4: the potability_score of a result is
\* clamp(100 - tds_deduction - turbidity_deduction, 0, 100), one deduction per
\* parameter from the stated bands, and lies within [0, 100].
C4_ScoreFormula ==
    \A i \in DOMAIN log :
        Has(log[i].result, "potability_score") =>
            /\ log[i].result.potability_score =
                    Clamp(100 - StatedTdsDeduction(log[i].tds_value)
                              - StatedTurbidityDeduction(log[i].turbidity_value), 0, 100)
            /\ log[i].result.potability_score >= 0
            /\ log[i].result.potability_score <= 100

\* both parameters in their most severe band: 100 - 50 - 50
C4_Witness ==
    \E i \in DOMAIN log :
        /\ log[i].tds_value = Num(12001)
        /\ log[i].turbidity_value = Num(501)
        /\ Has(log[i].result, "potability_score")
        /\ log[i].result.potability_score = 0

\* C5 as written, of the calls that succeed: the result for
\* (tds = 600, turbidity = 0.8) is 'Not Potable' with a TDS deduction of 40,
\* a score of 60.
C5_Original ==
    \A i \in DOMAIN log :
        (log[i].tds_value = Num(6000) /\ log[i].turbidity_value = Num(8)
            /\ Succeeded(log[i])) =>
            /\ log[i].result.potability_status = "Not Potable"
            /\ log[i].result.potability_score = 60

\* C5, amended: for (tds = 600, turbidity = 0.8) a call made while
\* models_loaded is True succeeds, and every successful result is
\* 'Not Potable' with a TDS deduction of 35, a score of 65.
C5_Amended ==
    \A i \in DOMAIN log :
        (log[i].tds_value = Num(6000) /\ log[i].turbidity_value = Num(8)) =>
            /\ log[i].loaded => Succeeded(log[i])
            /\ Succeeded(log[i]) =>
                    /\ log[i].result.potability_status = "Not Potable"
                    /\ log[i].result.potability_score = 100 - 35

\* (600, 0.8) evaluated
C5_Witness ==
    \E i \in DOMAIN log :
        /\ log[i].tds_value = Num(6000)
        /\ log[i].turbidity_value = Num(8)
        /\ Succeeded(log[i])

\* what str(e) can be
Causes == {TdsTypeError, TurbidityTypeError}

IsEvaluationFailure(r) ==
    /\ r.status = "error"
    /\ \E cause \in Causes : r.message = "AI prediction failed: " \o cause

OnlyStatusAndMessage(r) == DOMAIN r = {"status", "message"}

\* C7 as written: every error result is status and an
\* 'AI prediction failed: <cause>' message, nothing else, and every call with
\* numeric inputs succeeds.
C7_Original ==
    \A i \in DOMAIN log :
        /\ log[i].result.status = "error" =>
                /\ OnlyStatusAndMessage(log[i].result)
                /\ IsEvaluationFailure(log[i].result)
        /\ (IsFloat(log[i].tds_value) /\ IsFloat(log[i].turbidity_value)) =>
                Succeeded(log[i])

\* C7, amended: there are exactly two error outcomes, each of status and
\* message alone: 'AI models not loaded. Please train models first.', returned
\* exactly by the calls made while models_loaded is False, and
\* 'AI prediction failed: <cause>', returned exactly by the calls made while
\* models_loaded is True whose evaluation raises (tds or turbidity is no
\* number); every call with numeric tds and turbidity made while models_loaded
\* is True succeeds.
C7_Amended ==
    \A i \in DOMAIN log :
        LET c == log[i]
            r == log[i].result
        IN /\ r.status \in {"success", "error"}
           /\ r.status = "error" => OnlyStatusAndMessage(r)
           /\ (r = [status |-> "error",
                    message |-> "AI models not loaded. Please train models first."])
                <=> ~c.loaded
           /\ IsEvaluationFailure(r)
                <=> (c.loaded /\ ~(IsFloat(c.tds_value) /\ IsFloat(c.turbidity_value)))
           /\ Succeeded(c)
                <=> (c.loaded /\ IsFloat(c.tds_value) /\ IsFloat(c.turbidity_value))

\* an evaluation that raised
C7_Witness ==
    \E i \in DOMAIN log :
        /\ log[i].loaded
        /\ log[i].turbidity_value = NotANumber
        /\ IsEvaluationFailure(log[i].result)

ArtifactsUsable == classifier_file = "ok" /\ score_file = "ok"

\* C8: run as the main program, with an artifact missing or a load that
\* raises, load_models returns False leaving models_loaded False, the only
\* step left is the exit with code 1, and the server never starts; the server
\* starts only after load_models returned True, and no request is evaluated
\* while models_loaded is False.
C8_StartupGate ==
    module_name = "__main__" =>
        /\ (~ArtifactsUsable /\ pc # "toplevel") =>
                /\ load_result = <<FALSE>>
                /\ ~models_loaded
                /\ ~server_started
                /\ pc \in {"loaded", "exited"}
        /\ (pc = "loaded" /\ load_result = <<FALSE>>) =>
                /\ ENABLED MainExit
                /\ ~ENABLED MainRunServer
                /\ ~Serving
        /\ pc = "exited" => (exit_code = <<1>> /\ ~server_started /\ ~models_loaded)
        /\ exit_code # <<>> => pc = "exited"
        /\ (server_started \/ Serving) => (load_result = <<TRUE>> /\ models_loaded)
        /\ ~server_started => (response = <<>> /\ log = <<>>)
        /\ \A i \in DOMAIN log : log[i].loaded

\* the classifier loaded, the regressor's file unreadable: exit 1
C8_Witness ==
    /\ module_name = "__main__"
    /\ classifier_file = "ok"
    /\ score_file = "corrupt"
    /\ classifier_model = "loaded"
    /\ pc = "exited"
    /\ exit_code = <<1>>

\* the main program serving a request after a successful load
C8_Served ==
    /\ module_name = "__main__"
    /\ server_started
    /\ log # <<>>

Fires(c) ==
    [tds |-> Above(c.tds_value, 5000), turbidity |-> Above(c.turbidity_value, 10)]

\* C9 as written: in every successful result the TDS issue and action are
\* appended iff tds > 500, then one turbidity issue and action iff
\* turbidity > 1.0; risk_level is 'High' iff an issue was appended, which is
\* iff potability_status is 'Not Potable'; both issues are joined by a space,
\* both actions by ', '.
C9_Aggregation ==
    \A i \in DOMAIN log :
        Succeeded(log[i]) =>
            LET f == Fires(log[i])
                r == log[i].result
            IN /\ r.recommendation =
                    (IF f.tds /\ f.turbidity THEN TdsIssue \o " " \o TurbidityIssue
                     ELSE IF f.tds THEN TdsIssue
                     ELSE IF f.turbidity THEN TurbidityIssue
                     ELSE "Water is POTABLE. No immediate action needed.")
               /\ r.action_required =
                    (IF f.tds /\ f.turbidity
                     THEN "TDS treatment required, Sediment filtration required"
                     ELSE IF f.tds THEN "TDS treatment required"
                     ELSE IF f.turbidity THEN "Sediment filtration required"
                     ELSE "None")
               /\ r.risk_level = (IF f.tds \/ f.turbidity THEN "High" ELSE "Low")
               /\ (r.risk_level = "High") <=> (r.potability_status = "Not Potable")

SameArguments(c, d) ==
    /\ c.tds_value = d.tds_value
    /\ c.turbidity_value = d.turbidity_value
    /\ c.temperature = d.temperature
    /\ c.ph_level = d.ph_level

\* C6 as written: any two calls with identical (tds, turbidity, temperature,
\* ph) return identical results, whatever load_models did before or between
\* them.
C6_Original ==
    \A i, j \in DOMAIN log :
        SameArguments(log[i], log[j]) => log[i].result = log[j].result

\* C6, amended: the result is determined by the four arguments and the global
\* models_loaded, which the evaluator reads: any two calls with identical
\* arguments made under the same value of models_loaded return identical
\* results, and a call made while models_loaded is False returns the
\* 'AI models not loaded' error whatever its arguments; the evaluator writes no
\* state outside the call.
C6_Amended ==
    /\ [](\A i, j \in DOMAIN log :
            (SameArguments(log[i], log[j]) /\ log[i].loaded = log[j].loaded) =>
                log[i].result = log[j].result)
    /\ [](\A i \in DOMAIN log :
            ~log[i].loaded =>
                log[i].result =
                    [status |-> "error",
                     message |-> "AI models not loaded. Please train models first."])
    /\ [][log' # log =>
            UNCHANGED <<models_loaded, classifier_model, score_regressor>>]_vars

\* the same call made twice with the models loaded
C6_Witness ==
    /\ Len(log) >= 2
    /\ SameArguments(log[1], log[2])
    /\ log[1].loaded
    /\ log[2].loaded
    /\ Succeeded(log[2])

\* a result without the echoed temperature and ph_level
Informational(r) ==
    IF Has(r, "parameters")
    THEN [r EXCEPT !.parameters = [tds_value |-> @.tds_value,
                                   turbidity_value |-> @.turbidity_value]]
    ELSE r

SameReadings(c, d) ==
    /\ c.tds_value = d.tds_value
    /\ c.turbidity_value = d.turbidity_value

\* C10 as written: any two calls that agree on tds and turbidity and differ
\* in temperature or ph agree on every field of the result except
\* parameters.temperature and parameters.ph_level.
C10_Original ==
    \A i, j \in DOMAIN log :
        (SameReadings(log[i], log[j]) /\ ~SameArguments(log[i], log[j])) =>
            Informational(log[i].result) = Informational(log[j].result)

\* C10, amended: any two calls made under the same value of models_loaded
\* that agree on tds and turbidity and differ in temperature or ph agree on
\* every field of the result except parameters.temperature and
\* parameters.ph_level; the confidence of a successful result is 0.85.
C10_Amended ==
    /\ \A i, j \in DOMAIN log :
            (SameReadings(log[i], log[j]) /\ ~SameArguments(log[i], log[j])
                /\ log[i].loaded = log[j].loaded) =>
                Informational(log[i].result) = Informational(log[j].result)
    /\ \A i \in DOMAIN log : Succeeded(log[i]) => log[i].result.confidence = 85

\* two evaluations of one reading under different temperature and ph
C10_Witness ==
    /\ Len(log) >= 2
    /\ SameReadings(log[1], log[2])
    /\ log[1].temperature # log[2].temperature
    /\ log[1].ph_level # log[2].ph_level
    /\ Succeeded(log[1])
    /\ Succeeded(log[2])

====
